---- MODULE Spec2Model ----
(***************************************************************************)
(* GeoPlot.render of src/geoplot.py as a state machine.                    *)
(*                                                                         *)
(* A render call extracts coordinates and per-episode values from a state  *)
(* trajectory, generates a timeline, assembles one feature collection per  *)
(* entity and writes two files.  Each caller (thread or process) runs the  *)
(* statements of render in order; the only state callers share is the      *)
(* filesystem.                                                             *)
(*                                                                         *)
(* Files are sequences of units.  A unit is a contiguous range of bytes    *)
(* of the text render writes (an opening bracket, one serialised feature   *)
(* collection, the text of the HTML template before the dataset, ...).     *)
(* open(path, "w") truncates the file; every open file object has its own  *)
(* position; a write stores the next unit at the object's position.        *)
(* Times are whole seconds.  Python indices are 0-based, sequences here    *)
(* are 1-based: Python's xs[i] is xs[i + 1].                               *)
(***************************************************************************)
EXTENDS Integers, Sequences, FiniteSets, TLC

\* ------------------------------------------------------------------ bounds

MaxEpisodes == 3
MaxNumEpisodes == 2
MaxStepsPerEpisode == 2
MaxRenders == 2

\* ------------------------------------------------------------------ helpers

Min(a, b) == IF a <= b THEN a ELSE b

\* callers of render
Procs == {1, 2}

\* ------------------------------------------------------------------ inputs

\* options["coordinates"] and options["feature"], as re.split("/", var)
\* leaves them: the sequence of path segments
entity_position == <<"agents", "pos">>
entity_property == <<"agents", "prop">>

\* options["cesium_token"], options["visualization_type"]
cesium_token == "token"
visualization_type == "color"

\* f"{name}.geojson", f"{name}.html" for config name "sim"
geodata_path == "sim.geojson"
geoplot_path == "sim.html"
Paths == {geodata_path, geoplot_path}

\* State snapshots: nested mappings.  Positions are lists of [lat, lon]
\* pairs, properties are 2-D arrays (flattened by render).
SnapA == [agents |-> [pos |-> << <<10, 20>>, <<30, 40>> >>, prop |-> << <<1>>, <<2>> >>]]
SnapB == [agents |-> [pos |-> << <<50, 60>> >>, prop |-> << <<3>> >>]]
SnapC == [agents |-> [pos |-> << <<11, 21>>, <<31, 41>> >>, prop |-> << <<5, 6>> >>]]
\* a snapshot without the position path; one without the property path
SnapNoPos == [agents |-> [prop |-> << <<7>>, <<8>> >>]]
SnapNoProp == [agents |-> [pos |-> << <<10, 20>>, <<30, 40>> >>]]
\* the snapshot of every non-final step of an episode
SnapEarly == [agents |-> [pos |-> << <<90, 91>>, <<92, 93>>, <<94, 95>> >>,
                          prop |-> << <<9>>, <<9>>, <<9>> >>]]

Catalogue == <<SnapA, SnapB, SnapC, SnapNoPos, SnapNoProp>>

\* an episode of n snapshots whose final snapshot is s
Episode(s, n) == [j \in 1..n |-> IF j = n THEN s ELSE SnapEarly]

\* the trajectory of n-step episodes whose final snapshots are Catalogue[ks[e]]
Trajectory(ks, n) == [e \in DOMAIN ks |-> Episode(Catalogue[ks[e]], n)]

\* final-snapshot choices of every trajectory of at most MaxEpisodes episodes
AllShapes == UNION {[1..E -> DOMAIN Catalogue] : E \in 0..MaxEpisodes}

\* the trajectories of the repeated and of the concurrent renders
FewShapes == {<<>>, <<1, 1>>, <<1, 2, 1>>, <<2, 1, 1>>, <<4, 1>>, <<1, 5, 1>>}

\* pd.Timestamp.utcnow(), in seconds
Origins == {0, 7}

\* options["step_time"]
StepTimes == {2, 3}

\* ------------------------------------------------------------------ state

VARIABLES
    config,            \* self.config["simulation_metadata"]
    step_time,         \* self.step_time
    fs,                \* the filesystem: path -> [exists, data]
    pc,                \* each caller's position in render
    calls,             \* render calls each caller has started
    state_trajectory,  \* render's argument
    i,                 \* the extraction loop's index
    coords,            \* render's local coords
    values,            \* render's local values
    start_time,        \* render's local start_time
    timestamps,        \* render's local timestamps
    geojsons,          \* render's local geojsons
    f,                 \* the open file object: [path, pos, pending]
    err,               \* the exception render raised, "" for none
    visited,           \* history: <<episode, snapshot>> indices read (0-based)
    opens,             \* history, per path: who opened it last, and whether some
                       \* open found the file open in another caller
    fs_at_call         \* history: the filesystem when the caller entered render

vars == <<config, step_time, fs, pc, calls, state_trajectory, i, coords, values,
          start_time, timestamps, geojsons, f, err, visited, opens, fs_at_call>>

\* ------------------------------------------------------------------ pure parts

\* agent_torch.core.helpers.get_by_path: descend into the nested mapping one
\* segment at a time; a segment that is absent is a lookup error
RECURSIVE get_by_path(_, _)
get_by_path(state, path) ==
    IF path = <<>> THEN [ok |-> TRUE, val |-> state]
    ELSE IF Head(path) \in DOMAIN state
         THEN get_by_path(state[Head(path)], Tail(path))
         ELSE [ok |-> FALSE, val |-> <<>>]

read_var(state, var) == get_by_path(state, var)

\* np.array(x).flatten().tolist() of a 2-D array: its rows, concatenated
RECURSIVE flatten(_)
flatten(arr) == IF arr = <<>> THEN <<>> ELSE Head(arr) \o flatten(Tail(arr))

\* faulty variant: state_trajectory[i][0]
FinalIndex_first(episode) == 1

\* state_trajectory[i][-1]
FinalIndex(episode) == Len(episode)

\* faulty variant: range(0, len(state_trajectory))
LoopBound_all(trajectory) == Len(trajectory)

\* range(0, len(state_trajectory) - 1): the loop runs while i < LoopBound
LoopBound(trajectory) == Len(trajectory) - 1

\* time.isoformat(): the text of a timestamp
isoformat(time) == [iso |-> time]

\* faulty variant: range(1, total + 1)
Timeline_from_one(origin, step, total) == [k \in 1..total |-> origin + k * step]

\* the timestamps list: start_time + Timedelta(seconds = i * step_time), i in range(total)
Timeline(origin, step, total) == [k \in 1..total |-> origin + (k - 1) * step]

\* the number of (time, value_list) pairs zip(timestamps, values) yields
ZipLen(ts, vs) == Min(Len(ts), Len(vs))

\* faulty variant: [coord[0], coord[1]]
LonLat_unswapped(coord) == <<coord[1], coord[2]>>

\* [coord[1], coord[0]]
LonLat(coord) == <<coord[2], coord[1]>>

Feature(coord, value, time) ==
    [type |-> "Feature",
     geometry |-> [type |-> "Point", coordinates |-> LonLat(coord)],
     properties |-> [value |-> value, time |-> isoformat(time)]]

\* faulty variant: values[0][i] for every timestamp
FeatureCollection_first(k, coord, ts, vs) ==
    [type |-> "FeatureCollection",
     features |-> [t \in 1..ZipLen(ts, vs) |-> Feature(coord, vs[1][k], ts[t])]]

\* the feature collection of entity k (Python's i = k - 1): value_list[i] is vs[t][k]
FeatureCollection(k, coord, ts, vs) ==
    [type |-> "FeatureCollection",
     features |-> [t \in 1..ZipLen(ts, vs) |-> Feature(coord, vs[t][k], ts[t])]]

\* value_list[i] raises IndexError when the list has no entry i
IndexError(cs, ts, vs) ==
    \E k \in 1..Len(cs) : \E t \in 1..ZipLen(ts, vs) : k > Len(vs[t])

Assemble(cs, ts, vs) == [k \in 1..Len(cs) |-> FeatureCollection(k, cs[k], ts, vs)]

\* ------------------------------------------------------------------ files

\* a range of bytes of a file
Unit(kind, indent, fcs, strs, times) ==
    [kind |-> kind, indent |-> indent, fcs |-> fcs, strs |-> strs, times |-> times]

\* bytes never written, below a later write (a sparse file's zeros)
Hole == Unit("hole", 0, <<>>, <<>>, <<>>)

\* json.dump(obj, f, indent = indent) and json.dumps(obj) (indent -1 for None):
\* an empty list is "[]" either way
Dump(gs, indent) ==
    IF gs = <<>> THEN <<Unit("[]", 0, <<>>, <<>>, <<>>)>>
    ELSE <<Unit("[", indent, <<>>, <<>>, <<>>)>>
         \o [k \in 1..Len(gs) |-> Unit("item", indent, <<gs[k]>>, <<>>, <<>>)]
         \o <<Unit("]", indent, <<>>, <<>>, <<>>)>>

\* Template(geoplot_template).substitute(...): the template text up to $data
\* (with $accessToken and $visualType filled in), the dataset, the rest (with
\* $startTime and $stopTime)
Substitute(accessToken, startTime, stopTime, data, visualType) ==
    <<Unit("head", 0, <<>>, <<accessToken, visualType>>, <<>>)>>
    \o data
    \o <<Unit("tail", 0, <<>>, <<>>, <<startTime, stopTime>>)>>

NoFile == [exists |-> FALSE, data |-> <<>>]

\* faulty variant: open(path, "r+"), which keeps the old content
Truncated_keep(file) == [exists |-> TRUE, data |-> file.data]

\* open(path, "w"): the file exists and is empty
Truncated(file) == [exists |-> TRUE, data |-> <<>>]

\* write unit u at position pos (0-based) of a file's data
WriteAt(data, pos, u) ==
    IF pos < Len(data) THEN [data EXCEPT ![pos + 1] = u]
    ELSE data \o [k \in 1..(pos - Len(data)) |-> Hole] \o <<u>>

Closed == [path |-> "", pos |-> 0, pending |-> <<>>]

\* what one render writes to each file
GeoText(gs) == Dump(gs, 2)
HtmlText(gs, ts) ==
    Substitute(cesium_token, isoformat(ts[1]), isoformat(ts[Len(ts)]),
               Dump(gs, -1), visualization_type)

\* ------------------------------------------------------------------ render

Returned(p) == pc[p] \in {"idle", "done", "failed"}

\* render(state_trajectory), lines 193-195: a caller that is not inside render
\* calls it with a trajectory of `shapes`, at most `limit` times
RenderCall(p, shapes, limit) ==
    /\ Returned(p)
    /\ calls[p] < limit
    /\ \E ks \in shapes :
         state_trajectory' =
           [state_trajectory EXCEPT ![p] = Trajectory(ks, config.num_steps_per_episode)]
    /\ calls' = [calls EXCEPT ![p] = @ + 1]
    /\ pc' = [pc EXCEPT ![p] = "extract"]
    /\ i' = [i EXCEPT ![p] = 0]
    /\ coords' = [coords EXCEPT ![p] = <<>>]
    /\ values' = [values EXCEPT ![p] = <<>>]
    /\ timestamps' = [timestamps EXCEPT ![p] = <<>>]
    /\ geojsons' = [geojsons EXCEPT ![p] = <<>>]
    /\ err' = [err EXCEPT ![p] = ""]
    /\ visited' = [visited EXCEPT ![p] = <<>>]
    /\ fs_at_call' = [fs_at_call EXCEPT ![p] = fs]
    /\ UNCHANGED <<config, step_time, fs, f, opens, start_time>>

\* one iteration of the extraction loop, lines 198-203
ExtractStep(p) ==
    /\ pc[p] = "extract"
    /\ i[p] < LoopBound(state_trajectory[p])
    /\ LET episode == state_trajectory[p][i[p] + 1]
           final_state == episode[FinalIndex(episode)]
           position == read_var(final_state, entity_position)
           property == read_var(final_state, entity_property)
       IN  /\ position.ok /\ property.ok
           /\ coords' = [coords EXCEPT ![p] = position.val]
           /\ values' = [values EXCEPT ![p] = Append(@, flatten(property.val))]
           /\ visited' = [visited EXCEPT ![p] = Append(@, <<i[p], FinalIndex(episode) - 1>>)]
    /\ i' = [i EXCEPT ![p] = @ + 1]
    /\ UNCHANGED <<config, step_time, fs, pc, calls, state_trajectory, timestamps,
                   geojsons, f, err, opens, start_time, fs_at_call>>

\* an iteration whose read_var raises: render ends with the lookup error
ExtractFail(p) ==
    /\ pc[p] = "extract"
    /\ i[p] < LoopBound(state_trajectory[p])
    /\ LET episode == state_trajectory[p][i[p] + 1]
           final_state == episode[FinalIndex(episode)]
           position == read_var(final_state, entity_position)
           property == read_var(final_state, entity_property)
       IN  /\ ~(position.ok /\ property.ok)
           /\ coords' = [coords EXCEPT ![p] = IF position.ok THEN position.val ELSE @]
           /\ visited' = [visited EXCEPT ![p] = Append(@, <<i[p], FinalIndex(episode) - 1>>)]
    /\ pc' = [pc EXCEPT ![p] = "failed"]
    /\ err' = [err EXCEPT ![p] = "LookupError"]
    /\ UNCHANGED <<config, step_time, fs, calls, state_trajectory, i, values,
                   timestamps, geojsons, f, opens, start_time, fs_at_call>>

\* the loop is over; lines 206-213 read the clock and build the timestamps
BuildTimeline(p, origins) ==
    /\ pc[p] = "extract"
    /\ ~(i[p] < LoopBound(state_trajectory[p]))
    /\ \E now \in origins : start_time' = [start_time EXCEPT ![p] = now]
    /\ timestamps' = [timestamps EXCEPT ![p] =
           Timeline(start_time'[p], step_time,
                    config.num_episodes * config.num_steps_per_episode)]
    /\ pc' = [pc EXCEPT ![p] = "assemble"]
    /\ UNCHANGED <<config, step_time, fs, calls, state_trajectory, i, coords, values,
                   geojsons, f, err, visited, opens, fs_at_call>>

\* lines 215-233
AssembleStep(p) ==
    /\ pc[p] = "assemble"
    /\ ~IndexError(coords[p], timestamps[p], values[p])
    /\ geojsons' = [geojsons EXCEPT ![p] = Assemble(coords[p], timestamps[p], values[p])]
    /\ pc' = [pc EXCEPT ![p] = "geo_open"]
    /\ UNCHANGED <<config, step_time, fs, calls, state_trajectory, i, coords, values,
                   timestamps, f, err, visited, opens, start_time, fs_at_call>>

\* faulty variant: the geodata file opened before the features are built
AssembleFail_opened(p) ==
    /\ pc[p] = "assemble"
    /\ IndexError(coords[p], timestamps[p], values[p])
    /\ fs' = [fs EXCEPT ![geodata_path] = Truncated(@)]
    /\ pc' = [pc EXCEPT ![p] = "failed"]
    /\ err' = [err EXCEPT ![p] = "IndexError"]
    /\ UNCHANGED <<config, step_time, calls, state_trajectory, i, coords, values,
                   timestamps, geojsons, f, visited, opens, start_time, fs_at_call>>

\* line 228 raises
AssembleFail(p) ==
    /\ pc[p] = "assemble"
    /\ IndexError(coords[p], timestamps[p], values[p])
    /\ pc' = [pc EXCEPT ![p] = "failed"]
    /\ err' = [err EXCEPT ![p] = "IndexError"]
    /\ UNCHANGED <<config, step_time, fs, calls, state_trajectory, i, coords, values,
                   timestamps, geojsons, f, visited, opens, start_time,
                   fs_at_call>>

\* faulty variant: open(path, "a")
Open_append(p, path, text) ==
    /\ fs' = [fs EXCEPT ![path].exists = TRUE]
    /\ f' = [f EXCEPT ![p] = [path |-> path, pos |-> Len(fs[path].data),
                              pending |-> text]]
    /\ opens' = [opens EXCEPT ![path] =
                   [last |-> p,
                    overlap |-> @.overlap \/ \E q \in Procs \ {p} : f[q].path = path]]

\* open(path, "w") by caller p, about to write text
Open(p, path, text) ==
    /\ fs' = [fs EXCEPT ![path] = Truncated(@)]
    /\ f' = [f EXCEPT ![p] = [path |-> path, pos |-> 0, pending |-> text]]
    /\ opens' = [opens EXCEPT ![path] =
                   [last |-> p,
                    overlap |-> @.overlap \/ \E q \in Procs \ {p} : f[q].path = path]]

\* the next pending unit of caller p's file object reaches the file
Write(p) ==
    /\ f[p].pending # <<>>
    /\ fs' = [fs EXCEPT ![f[p].path].data = WriteAt(@, f[p].pos, Head(f[p].pending))]
    /\ f' = [f EXCEPT ![p].pos = @ + 1, ![p].pending = Tail(@)]

\* line 236
GeoOpen(p) ==
    /\ pc[p] = "geo_open"
    /\ Open(p, geodata_path, GeoText(geojsons[p]))
    /\ pc' = [pc EXCEPT ![p] = "geo_write"]
    /\ UNCHANGED <<config, step_time, calls, state_trajectory, i, coords, values,
                   timestamps, geojsons, err, visited, start_time, fs_at_call>>

\* line 237
GeoWrite(p) ==
    /\ pc[p] = "geo_write"
    /\ Write(p)
    /\ UNCHANGED <<config, step_time, pc, calls, state_trajectory, i, coords, values,
                   timestamps, geojsons, err, visited, opens, start_time,
                   fs_at_call>>

\* the end of the with block of line 236
GeoClose(p) ==
    /\ pc[p] = "geo_write"
    /\ f[p].pending = <<>>
    /\ f' = [f EXCEPT ![p] = Closed]
    /\ pc' = [pc EXCEPT ![p] = "html_open"]
    /\ UNCHANGED <<config, step_time, fs, calls, state_trajectory, i, coords, values,
                   timestamps, geojsons, err, visited, opens, start_time,
                   fs_at_call>>

\* line 241
HtmlOpen(p) ==
    /\ pc[p] = "html_open"
    /\ Open(p, geoplot_path, HtmlText(geojsons[p], timestamps[p]))
    /\ pc' = [pc EXCEPT ![p] = "html_write"]
    /\ UNCHANGED <<config, step_time, calls, state_trajectory, i, coords, values,
                   timestamps, geojsons, err, visited, start_time, fs_at_call>>

\* lines 242-252
HtmlWrite(p) ==
    /\ pc[p] = "html_write"
    /\ Write(p)
    /\ UNCHANGED <<config, step_time, pc, calls, state_trajectory, i, coords, values,
                   timestamps, geojsons, err, visited, opens, start_time,
                   fs_at_call>>

\* the end of the with block of line 241: render returns
HtmlClose(p) ==
    /\ pc[p] = "html_write"
    /\ f[p].pending = <<>>
    /\ f' = [f EXCEPT ![p] = Closed]
    /\ pc' = [pc EXCEPT ![p] = "done"]
    /\ UNCHANGED <<config, step_time, fs, calls, state_trajectory, i, coords, values,
                   timestamps, geojsons, err, visited, opens, start_time,
                   fs_at_call>>

\* an I/O error in open or write: the with block closes the file object, the
\* error reaches the caller, nothing is undone
IOError(p, path) ==
    /\ f' = [f EXCEPT ![p] = Closed]
    /\ pc' = [pc EXCEPT ![p] = "failed"]
    /\ err' = [err EXCEPT ![p] = "IOError " \o path]
    /\ UNCHANGED <<config, step_time, fs, calls, state_trajectory, i, coords, values,
                   timestamps, geojsons, visited, opens, start_time,
                   fs_at_call>>

\* lines 236-237 fail
GeoFail(p) ==
    /\ pc[p] \in {"geo_open", "geo_write"}
    /\ IOError(p, geodata_path)

\* faulty variant: the geodata file removed when the HTML file fails
HtmlFail_cleanup(p) ==
    /\ pc[p] \in {"html_open", "html_write"}
    /\ fs' = [fs EXCEPT ![geodata_path] = NoFile]
    /\ f' = [f EXCEPT ![p] = Closed]
    /\ pc' = [pc EXCEPT ![p] = "failed"]
    /\ err' = [err EXCEPT ![p] = "IOError " \o geoplot_path]
    /\ UNCHANGED <<config, step_time, calls, state_trajectory, i, coords, values,
                   timestamps, geojsons, visited, opens, start_time, fs_at_call>>

\* lines 241-252 fail
HtmlFail(p) ==
    /\ pc[p] \in {"html_open", "html_write"}
    /\ IOError(p, geoplot_path)

\* ------------------------------------------------------------------ specifications

\* GeoPlot(config, options) constructed; nobody has called render; no output file
InitWith(configs, steps) ==
    /\ config \in configs
    /\ step_time \in steps
    /\ fs = [path \in Paths |-> NoFile]
    /\ pc = [p \in Procs |-> "idle"]
    /\ calls = [p \in Procs |-> 0]
    /\ state_trajectory = [p \in Procs |-> <<>>]
    /\ i = [p \in Procs |-> 0]
    /\ coords = [p \in Procs |-> <<>>]
    /\ values = [p \in Procs |-> <<>>]
    /\ start_time = [p \in Procs |-> 0]
    /\ timestamps = [p \in Procs |-> <<>>]
    /\ geojsons = [p \in Procs |-> <<>>]
    /\ f = [p \in Procs |-> Closed]
    /\ err = [p \in Procs |-> ""]
    /\ visited = [p \in Procs |-> <<>>]
    /\ opens = [path \in Paths |-> [last |-> 0, overlap |-> FALSE]]
    /\ fs_at_call = [p \in Procs |-> [path \in Paths |-> NoFile]]

\* simulation_metadata with positive num_episodes and num_steps_per_episode
Configs ==
    [num_episodes : 1..MaxNumEpisodes, num_steps_per_episode : 1..MaxStepsPerEpisode]

FewConfigs == {[num_episodes |-> 2, num_steps_per_episode |-> 1]}

\* One render call, of any trajectory, on an empty directory.
Init == InitWith(Configs, StepTimes)

Next ==
    \/ RenderCall(1, AllShapes, 1)
    \/ ExtractStep(1)
    \/ ExtractFail(1)
    \/ BuildTimeline(1, Origins)
    \/ AssembleStep(1)
    \/ AssembleFail(1)
    \/ GeoOpen(1)
    \/ GeoWrite(1)
    \/ GeoClose(1)
    \/ GeoFail(1)
    \/ HtmlOpen(1)
    \/ HtmlWrite(1)
    \/ HtmlClose(1)
    \/ HtmlFail(1)

Spec == Init /\ [][Next]_vars

\* One caller renders again and again to the same paths.
InitSeq == InitWith(FewConfigs, {2})

NextSeq ==
    \/ RenderCall(1, FewShapes, MaxRenders)
    \/ ExtractStep(1)
    \/ ExtractFail(1)
    \/ BuildTimeline(1, Origins)
    \/ AssembleStep(1)
    \/ AssembleFail(1)
    \/ GeoOpen(1)
    \/ GeoWrite(1)
    \/ GeoClose(1)
    \/ GeoFail(1)
    \/ HtmlOpen(1)
    \/ HtmlWrite(1)
    \/ HtmlClose(1)
    \/ HtmlFail(1)

SpecSeq == InitSeq /\ [][NextSeq]_vars

\* Two callers render once each to the same paths, with no synchronisation:
\* any interleaving of their steps.
InitConc == InitWith(FewConfigs, {2})

NextConc ==
    \E p \in Procs :
        \/ RenderCall(p, FewShapes, 1)
        \/ ExtractStep(p)
        \/ ExtractFail(p)
        \/ BuildTimeline(p, {0})
        \/ AssembleStep(p)
        \/ AssembleFail(p)
        \/ GeoOpen(p)
        \/ GeoWrite(p)
        \/ GeoClose(p)
        \/ HtmlOpen(p)
        \/ HtmlWrite(p)
        \/ HtmlClose(p)

SpecConc == InitConc /\ [][NextConc]_vars

\* ------------------------------------------------------------------ properties

\* the caller has left the extraction loop without a lookup error and has built
\* its timestamps
Extracted(p) ==
    \/ pc[p] \in {"assemble", "geo_open", "geo_write", "html_open", "html_write", "done"}
    \/ pc[p] = "failed" /\ err[p] # "LookupError"

\* the caller has built geojsons: assembly ended without an index error
Assembled(p) ==
    \/ pc[p] \in {"geo_open", "geo_write", "html_open", "html_write", "done"}
    \/ pc[p] = "failed" /\ err[p] \notin {"LookupError", "IndexError"}

\* the final snapshot of episode e (0-based) of the caller's trajectory
FinalSnapshot(p, e) == state_trajectory[p][e + 1][Len(state_trajectory[p][e + 1])]

\* the number of episodes the loop visits for a trajectory of E episodes
Visits(E) == IF E <= 1 THEN 0 ELSE E - 1

\* C1: once geojsons is built, entity i's feature list has exactly
\* min(len(timestamps), len(values)) features, in order, and feature t carries the
\* entity's entry of the flattened property of episode t's final snapshot and the
\* time timestamps[t].
C1_FeaturesPerEntity ==
    \A p \in Procs : Assembled(p) =>
        \A k \in 1..Len(geojsons[p]) :
            LET features == geojsons[p][k].features IN
            /\ Len(features) = Min(Len(timestamps[p]), Len(values[p]))
            /\ \A t \in 1..Len(features) :
                 /\ features[t].properties.value
                      = flatten(FinalSnapshot(p, t - 1).agents.prop)[k]
                 /\ features[t].properties.time = isoformat(timestamps[p][t])

\* two entities, more timestamps than visited episodes, two features each with
\* different values
C1_Witness ==
    /\ pc[1] = "done"
    /\ Len(geojsons[1]) = 2
    /\ Len(timestamps[1]) = 4
    /\ Len(values[1]) = 2
    /\ geojsons[1][1].features[1].properties.value = 1
    /\ geojsons[1][1].features[2].properties.value = 5
    /\ geojsons[1][2].features[2].properties.value = 6

\* C2: the loop reads the final snapshot of episodes 0, 1, ... in increasing order,
\* never more than E - 1 of them, and once it is over it has read exactly the
\* episodes 0 .. E-2 and values has E - 1 entries (none when E <= 1).
C2_VisitedEpisodes ==
    \A p \in Procs :
        LET E == Len(state_trajectory[p]) IN
        /\ Len(visited[p]) <= Visits(E)
        /\ \A j \in 1..Len(visited[p]) :
             visited[p][j] = <<j - 1, Len(state_trajectory[p][j]) - 1>>
        /\ Extracted(p) => Len(visited[p]) = Visits(E) /\ Len(values[p]) = Visits(E)

\* three episodes of two snapshots each: snapshot 1 of episodes 0 and 1 was read
C2_Witness ==
    /\ pc[1] = "done"
    /\ Len(state_trajectory[1]) = 3
    /\ visited[1] = << <<0, 1>>, <<1, 1>> >>

\* C3: with E >= 2 episodes, a render that builds geojsons builds one feature
\* collection per position of the final snapshot of episode E-2, and every
\* feature of entity i has coordinates [c[1], c[0]] for c that snapshot's i-th
\* position.
C3_LastCoordinatesWin ==
    \A p \in Procs :
        LET E == Len(state_trajectory[p]) IN
        (Assembled(p) /\ E >= 2) =>
            LET pos == FinalSnapshot(p, E - 2).agents.pos IN
            /\ Len(geojsons[p]) = Len(pos)
            /\ \A k \in 1..Len(geojsons[p]) :
                 \A t \in 1..Len(geojsons[p][k].features) :
                     geojsons[p][k].features[t].geometry.coordinates
                       = <<pos[k][2], pos[k][1]>>

\* episode 0 held two entities, episode 1 (the last visited) one, elsewhere
C3_Witness ==
    /\ pc[1] = "done"
    /\ Len(state_trajectory[1]) = 3
    /\ FinalSnapshot(1, 0) = SnapA
    /\ FinalSnapshot(1, 1) = SnapB
    /\ Len(geojsons[1]) = 1
    /\ Len(geojsons[1][1].features) = 2
    /\ geojsons[1][1].features[1].geometry.coordinates = <<60, 50>>

\* C4: every feature collection has num_episodes * num_steps_per_episode features.
C4_FeaturePerTimestamp ==
    \A p \in Procs : Assembled(p) =>
        \A k \in 1..Len(geojsons[p]) :
            Len(geojsons[p][k].features)
              = config.num_episodes * config.num_steps_per_episode

\* C5: the timeline has num_episodes * num_steps_per_episode timestamps,
\* timestamps[k] = start_time + k * step_time, strictly increasing, whatever the
\* trajectory.
C5_Timeline ==
    \A p \in Procs : Extracted(p) =>
        /\ Len(timestamps[p]) = config.num_episodes * config.num_steps_per_episode
        /\ \A k \in 1..Len(timestamps[p]) :
             timestamps[p][k] = start_time[p] + (k - 1) * step_time
        /\ \A k \in 1..(Len(timestamps[p]) - 1) :
             /\ timestamps[p][k] < timestamps[p][k + 1]
             /\ timestamps[p][k + 1] - timestamps[p][k] = step_time

\* four timestamps from origin 7, three seconds apart, for an empty trajectory
C5_Witness ==
    /\ pc[1] = "done"
    /\ state_trajectory[1] = <<>>
    /\ timestamps[1] = <<7, 10, 13, 16>>

\* C6: a render of a trajectory of 0 or 1 episodes raises neither a lookup error
\* nor an index error, and when it returns the geodata file is the empty list and
\* the HTML file's dataset is the empty list.
C6_FewEpisodes ==
    \A p \in Procs : Len(state_trajectory[p]) <= 1 =>
        /\ err[p] \notin {"LookupError", "IndexError"}
        /\ pc[p] = "done" =>
             /\ fs[geodata_path] = [exists |-> TRUE, data |-> Dump(<<>>, 2)]
             /\ fs[geoplot_path].exists
             /\ Len(fs[geoplot_path].data) = 3
             /\ fs[geoplot_path].data[1].kind = "head"
             /\ fs[geoplot_path].data[2] = Unit("[]", 0, <<>>, <<>>, <<>>)
             /\ fs[geoplot_path].data[3].kind = "tail"

\* one episode whose final snapshot has no position path: render returned
C6_Witness ==
    /\ pc[1] = "done"
    /\ Len(state_trajectory[1]) = 1
    /\ FinalSnapshot(1, 0) = SnapNoPos
    /\ fs[geodata_path].data = <<Unit("[]", 0, <<>>, <<>>, <<>>)>>

\* C7: when a render returns, each file holds exactly the text of that call's
\* geojsons and timestamps, whatever the files held before.
C7_NoMerge ==
    \A p \in Procs : pc[p] = "done" =>
        /\ fs[geodata_path] = [exists |-> TRUE, data |-> GeoText(geojsons[p])]
        /\ fs[geoplot_path] =
             [exists |-> TRUE, data |-> HtmlText(geojsons[p], timestamps[p])]

\* a second render, of no feature collection, over the files of a first one that
\* wrote two
C7_Witness ==
    /\ pc[1] = "done"
    /\ calls[1] = 2
    /\ geojsons[1] = <<>>
    /\ Len(fs_at_call[1][geodata_path].data) = 4
    /\ Len(fs_at_call[1][geoplot_path].data) = 6

\* C8: while the HTML file is being opened or written the geodata file is closed
\* and complete, and after an I/O error of the HTML file it still holds the
\* call's full data.
C8_GeodataFirst ==
    \A p \in Procs :
        (\/ pc[p] \in {"html_open", "html_write"}
         \/ pc[p] = "failed" /\ err[p] = "IOError " \o geoplot_path) =>
            /\ f[p].path # geodata_path
            /\ fs[geodata_path] = [exists |-> TRUE, data |-> GeoText(geojsons[p])]

\* the second render failed in the middle of the HTML file, the geodata file has
\* its two feature collections
C8_Witness ==
    /\ pc[1] = "failed"
    /\ err[1] = "IOError " \o geoplot_path
    /\ calls[1] = 2
    /\ Len(geojsons[1]) = 2
    /\ fs[geodata_path].data = GeoText(geojsons[1])
    /\ Len(fs[geoplot_path].data) = 2
    /\ fs_at_call[1][geodata_path].data # fs[geodata_path].data

\* the files hold what caller p wrote
HoldsTextOf(p, path) ==
    fs[path].data = IF path = geodata_path THEN GeoText(geojsons[p])
                    ELSE HtmlText(geojsons[p], timestamps[p])

\* C9: once both concurrent calls have returned, each file holds exactly the
\* content of one of the two calls.
C9_LastWriterWins ==
    (pc[1] = "done" /\ pc[2] = "done") =>
        \A path \in Paths : \E p \in Procs : HoldsTextOf(p, path)

\* C9, amended: a file that the call which opened it last found closed (the two
\* calls' use of the file did not overlap) holds exactly that call's content
\* once that call has returned.
C9_LastOpenerWins ==
    \A path \in Paths : \A p \in Procs :
        (pc[p] = "done" /\ opens[path].last = p /\ ~opens[path].overlap) =>
            HoldsTextOf(p, path)

\* both calls returned, neither file was used by both at once, and the geodata
\* file is caller 1's while the HTML file is caller 2's
C9_Witness ==
    /\ pc[1] = "done" /\ pc[2] = "done"
    /\ ~opens[geodata_path].overlap /\ ~opens[geoplot_path].overlap
    /\ opens[geodata_path].last = 1
    /\ opens[geoplot_path].last = 2
    /\ Len(geojsons[1]) = 2
    /\ Len(geojsons[2]) = 0

\* C10: a render that fails with a lookup error or an index error leaves both
\* files as they were when it was called.
C10_FailureBeforeWriting ==
    \A p \in Procs :
        (pc[p] = "failed" /\ err[p] \in {"LookupError", "IndexError"}) =>
            fs = fs_at_call[p]

\* a second render fails with an index error; the first one's files are there
C10_Witness ==
    /\ pc[1] = "failed"
    /\ err[1] = "IndexError"
    /\ calls[1] = 2
    /\ Len(fs[geodata_path].data) = 4
    /\ Len(fs[geoplot_path].data) = 6

====
